---- MODULE Spec2Model ----
(***************************************************************************)
(* Model of src/main.rs: the session store (init_db, save_session,        *)
(* save_message, load_history), the provider adapter (call_llm) and the   *)
(* turn loop with its tool round-trip (start_chat_session), driven from   *)
(* the main menu (main).                                                   *)
(*                                                                         *)
(* Text is a sequence of one-character strings wherever the program looks *)
(* inside it (user input, model replies); fixed literals that the program *)
(* only concatenates are kept as single pieces of such a sequence.        *)
(***************************************************************************)
EXTENDS Integers, Sequences, FiniteSets, TLC

(***************************************************************************)
(* Bounds of the model.                                                    *)
(***************************************************************************)
\* total number of non-empty, non-exit inputs read in one run of the process
MaxInputs == 2

(***************************************************************************)
(* Text helpers (Rust str methods used by the program).                    *)
(***************************************************************************)
LowerLetters == <<"a","b","c","d","e","f","g","h","i","j","k","l","m",
                  "n","o","p","q","r","s","t","u","v","w","x","y","z">>
UpperLetters == <<"A","B","C","D","E","F","G","H","I","J","K","L","M",
                  "N","O","P","Q","R","S","T","U","V","W","X","Y","Z">>

\* char::is_whitespace, restricted to the characters of the model
Whitespace == {" ", "\n", "\t"}

\* the grave accent U+0060, which a TLA+ string cannot hold, as one character
Backtick == "GRAVE"

\* the closure passed to trim_matches at main.rs:278
QuoteChars == {"'", "\"", Backtick}

UpperChar(c) ==
    IF \E i \in 1..Len(LowerLetters) : LowerLetters[i] = c
    THEN UpperLetters[CHOOSE i \in 1..Len(LowerLetters) : LowerLetters[i] = c]
    ELSE c

\* str::to_uppercase
to_uppercase(s) == [i \in 1..Len(s) |-> UpperChar(s[i])]

\* str::eq_ignore_ascii_case
eq_ignore_ascii_case(a, b) == to_uppercase(a) = to_uppercase(b)

\* str::starts_with
starts_with(s, p) == Len(s) >= Len(p) /\ SubSeq(s, 1, Len(p)) = p

\* str::trim_start_matches with a set of characters: every leading match goes
RECURSIVE trim_start_matches(_, _)
trim_start_matches(s, cs) ==
    IF s # <<>> /\ s[1] \in cs THEN trim_start_matches(Tail(s), cs) ELSE s

\* str::trim_end_matches with a set of characters: every trailing match goes
RECURSIVE trim_end_matches(_, _)
trim_end_matches(s, cs) ==
    IF s # <<>> /\ s[Len(s)] \in cs
    THEN trim_end_matches(SubSeq(s, 1, Len(s) - 1), cs)
    ELSE s

\* str::trim_matches
trim_matches(s, cs) == trim_end_matches(trim_start_matches(s, cs), cs)

\* str::trim and str::trim_start
trim(s) == trim_matches(s, Whitespace)
trim_start(s) == trim_start_matches(s, Whitespace)

\* str::find(char): index of the first occurrence, 0 for None
find(s, c) ==
    IF \E i \in 1..Len(s) : s[i] = c
    THEN CHOOSE i \in 1..Len(s) : s[i] = c /\ \A j \in 1..(i - 1) : s[j] # c
    ELSE 0

\* s.splitn(2, c).nth(1).unwrap_or("")
splitn2_nth1(s, c) ==
    IF find(s, c) = 0 THEN <<>> ELSE SubSeq(s, find(s, c) + 1, Len(s))

(***************************************************************************)
(* The session store: two tables of a SQLite database.                     *)
(***************************************************************************)
\* Message (main.rs:28-32)
Message(role, content) == [role |-> role, content |-> content]

\* variant: INSERT OR REPLACE, the row of an existing id is written anew
save_session_replace(sess, session_id, clock) ==
    {r \in sess : r.id # session_id} \cup {[id |-> session_id, created_at |-> clock]}

\* INSERT OR IGNORE INTO sessions (id): created_at defaults to the clock
save_session(sess, session_id, clock) ==
    IF \E r \in sess : r.id = session_id
    THEN sess
    ELSE sess \cup {[id |-> session_id, created_at |-> clock]}

\* INTEGER PRIMARY KEY AUTOINCREMENT: one more than the largest id handed out
\* (no row is ever deleted, so that is the largest id in the table)
NextRowId(msgs) ==
    IF msgs = {} THEN 1
    ELSE 1 + (CHOOSE n \in {r.id : r \in msgs} : \A r \in msgs : r.id <= n)

\* variant: the insert runs twice
save_message_twice(msgs, session_id, role, content) ==
    LET once == msgs \cup {[id |-> NextRowId(msgs), session_id |-> session_id,
                            role |-> role, content |-> content]}
    IN  once \cup {[id |-> NextRowId(once), session_id |-> session_id,
                    role |-> role, content |-> content]}

\* INSERT INTO messages (session_id, role, content)
save_message(msgs, session_id, role, content) ==
    msgs \cup {[id |-> NextRowId(msgs), session_id |-> session_id,
                role |-> role, content |-> content]}

\* ORDER BY id ASC, as a sequence of rows
RECURSIVE OrderByIdAsc(_)
OrderByIdAsc(rows) ==
    IF rows = {} THEN <<>>
    ELSE LET first == CHOOSE r \in rows : \A q \in rows : r.id <= q.id
         IN  <<first>> \o OrderByIdAsc(rows \ {first})

\* variant: ORDER BY id DESC
RECURSIVE OrderByIdDesc(_)
OrderByIdDesc(rows) ==
    IF rows = {} THEN <<>>
    ELSE LET first == CHOOSE r \in rows : \A q \in rows : r.id >= q.id
         IN  <<first>> \o OrderByIdDesc(rows \ {first})

SelectRowsDesc(msgs, session_id) ==
    OrderByIdDesc({r \in msgs : r.session_id = session_id})

\* the rows SELECT ... WHERE session_id = ?1 ORDER BY id ASC yields
SelectRows(msgs, session_id) ==
    OrderByIdAsc({r \in msgs : r.session_id = session_id})

\* load_history: the selected rows as Messages
load_history(msgs, session_id) ==
    LET rows == SelectRows(msgs, session_id)
    IN  [i \in 1..Len(rows) |-> Message(rows[i].role, rows[i].content)]

(***************************************************************************)
(* The provider adapter: call_llm.                                         *)
(***************************************************************************)
Providers == {"OpenAI", "Sambanova", "Gemini"}

\* model_name of the ApiConfig main builds for each provider
ModelName(provider) ==
    CASE provider = "OpenAI"    -> "gpt-4-turbo"
      [] provider = "Sambanova" -> "Meta-Llama-3.2-1B-Instruct"
      [] provider = "Gemini"    -> "gemini-2.0-flash"

\* the fixed acknowledgment of the synthetic leading exchange
Understood == <<"Understood.">>

\* gemini_contents: the role and text of each entry, in order
GeminiContents(h) ==
    LET lead == IF h # <<>> /\ h[1].role = "system"
                THEN <<[role |-> "user", text |-> h[1].content],
                       [role |-> "model", text |-> Understood]>>
                ELSE <<>>
        rest == [i \in 1..(Len(h) - 1) |->
                    [role |-> IF h[i + 1].role = "assistant" THEN "model" ELSE "user",
                     text |-> h[i + 1].content]]
    IN  lead \o rest

\* messages_json: one {role, content} entry per message
OpenAIMessages(h) ==
    [i \in 1..Len(h) |-> [role |-> h[i].role, text |-> h[i].content]]

\* the entries of the request body call_llm sends for a history
RequestEntries(provider, h) ==
    IF provider = "Gemini" THEN GeminiContents(h) ELSE OpenAIMessages(h)

\* the text used when the reply field is absent
NoResponse == <<"[","N","o"," ","r","e","s","p","o","n","s","e","]">>

\* A backend response: sent is FALSE when send() fails (network, timeout);
\* success is status().is_success(); json is FALSE when the body is not JSON
\* (resp_json is then {}); choices and candidates hold the reply texts found
\* under choices[i].message.content and candidates[i].content.parts[0].text.
Response(sent, success, json, choices, candidates) ==
    [sent |-> sent, success |-> success, json |-> json,
     choices |-> choices, candidates |-> candidates]

\* the reply extraction at main.rs:205-214
ExtractReply(provider, resp) ==
    LET field == IF ~resp.json THEN <<>>
                 ELSE IF provider = "Gemini" THEN resp.candidates
                 ELSE resp.choices
    IN  IF field = <<>> THEN NoResponse ELSE field[1]

\* variant: a body that is not JSON, or lacks the reply field, is an Err
call_llm_strict(provider, resp) ==
    IF ~resp.sent THEN [ok |-> FALSE, reply |-> <<>>]
    ELSE IF ~resp.success THEN [ok |-> FALSE, reply |-> <<>>]
    ELSE IF ExtractReply(provider, resp) = NoResponse
    THEN [ok |-> FALSE, reply |-> <<>>]
    ELSE [ok |-> TRUE, reply |-> ExtractReply(provider, resp)]

\* the Result call_llm returns for a response
call_llm(provider, resp) ==
    IF ~resp.sent THEN [ok |-> FALSE, reply |-> <<>>]
    ELSE IF ~resp.success THEN [ok |-> FALSE, reply |-> <<>>]
    ELSE [ok |-> TRUE, reply |-> ExtractReply(provider, resp)]

(***************************************************************************)
(* Directive detection (main.rs:278-288 and 312-314).                      *)
(***************************************************************************)
RunCommandPrefix == <<"[","R","U","N","_","C","O","M","M","A","N","D">>
SearchPrefix == <<"[","S","E","A","R","C","H",":">>

\* trimmed_reply
trimmed_reply(assistant_reply) == trim_matches(trim(assistant_reply), QuoteChars)

\* the test of the first branch
IsRunCommand(assistant_reply) ==
    starts_with(to_uppercase(trimmed_reply(assistant_reply)), RunCommandPrefix)

\* command_str: everything after the first space, or "" without a space
command_str(assistant_reply) ==
    LET t == trimmed_reply(assistant_reply)
        pos == find(t, " ")
    IN  IF pos # 0
        THEN trim_end_matches(trim_start(SubSeq(t, pos, Len(t))), {"]"})
        ELSE <<>>

\* variant: the session's web-search flag is not consulted
IsSearchUnguarded(enabled, assistant_reply) ==
    /\ ~IsRunCommand(assistant_reply)
    /\ starts_with(to_uppercase(trimmed_reply(assistant_reply)), SearchPrefix)

\* the test of the else-if branch
IsSearch(enabled, assistant_reply) ==
    /\ ~IsRunCommand(assistant_reply)
    /\ enabled
    /\ starts_with(to_uppercase(trimmed_reply(assistant_reply)), SearchPrefix)

\* query_part
query_part(assistant_reply) ==
    trim_end_matches(splitn2_nth1(trimmed_reply(assistant_reply), ":"), {"]"})

(***************************************************************************)
(* The two tools.                                                          *)
(***************************************************************************)
\* a byte sequence that is not UTF-8, and what from_utf8_lossy makes of it
InvalidByte == "0xFF"
ReplacementChar == "U+FFFD"
from_utf8_lossy(bytes) ==
    [i \in 1..Len(bytes) |-> IF bytes[i] = InvalidByte THEN ReplacementChar ELSE bytes[i]]

\* std::process::Output, with spawned FALSE when output() returns Err
ShellOutput(spawned, success, stdout, stderr) ==
    [spawned |-> spawned, success |-> success, stdout |-> stdout, stderr |-> stderr]

\* result (main.rs:303-307)
ShellResult(output) ==
    IF output.success
    THEN from_utf8_lossy(output.stdout)
    ELSE from_utf8_lossy(output.stderr)

\* the system message pushed after a shell command
CommandOutputMessage(output) ==
    Message("system", <<"Command output:\n">> \o ShellResult(output))

\* What the search backend does: sent is FALSE when the client cannot be built
\* or send() fails (timeout included); success is status().is_success();
\* readable is FALSE when reading the body fails.
SearchResponse(sent, success, readable, status, body) ==
    [sent |-> sent, success |-> success, readable |-> readable,
     status |-> status, body |-> body]

\* web_search: the Result it returns
web_search(r) ==
    IF ~r.sent THEN [ok |-> FALSE, text |-> <<"error sending request">>]
    ELSE IF ~r.success
    THEN [ok |-> TRUE,
          text |-> <<"Search API returned a non-success status: ", r.status, ". Body: ">>
                   \o (IF r.readable THEN r.body ELSE <<"Could not read body">>)]
    ELSE IF r.readable THEN [ok |-> TRUE, text |-> r.body]
    ELSE [ok |-> FALSE, text |-> <<"error decoding response body">>]

\* search_results (main.rs:317)
search_results(r) ==
    IF web_search(r).ok THEN web_search(r).text
    ELSE <<"Failed to perform web search: ">> \o web_search(r).text

\* tool_result_prompt as a system message (main.rs:318-320)
SearchResultMessage(assistant_reply, r) ==
    Message("system",
            <<"Web search results for '">> \o query_part(assistant_reply)
                \o <<"':\n">> \o search_results(r))

\* system_prompt (main.rs:231-246)
system_prompt(enabled, provider) ==
    IF enabled
    THEN <<"You are a helpful AI assistant powered by the ", ModelName(provider),
           " model. [...] Tool format: [RUN_COMMAND <command to run>], [SEARCH: your query]. Current year: ",
           "current_year">>
    ELSE <<"You are an AI assistant powered by the ", ModelName(provider), " model.">>

(***************************************************************************)
(* What the environment can supply: lines typed by the user, responses of *)
(* the model backend, outcomes of the shell and of the search backend.     *)
(***************************************************************************)
InputHi == <<"h","i","\n">>
InputBlank == <<" ","\n">>
InputExit == <<"E","x","i","t","\n">>
InputQuit == <<"q","u","i","t","\n">>
UserInputs == {InputHi, InputBlank, InputExit, InputQuit}

WebSearchChoices == {<<"Y","\n">>, <<"n","\n">>}

ReplyPlain == <<"4">>
ReplyRun == <<"[","R","U","N","_","C","O","M","M","A","N","D"," ","l","s","]">>
ReplyRunEmpty == <<"[","r","u","n","_","c","o","m","m","a","n","d","]","\n">>
ReplySearch == <<"[","S","E","A","R","C","H",":"," ","q","]">>
ReplyTexts == {ReplyPlain, ReplyRun, ReplyRunEmpty, ReplySearch}

Responses ==
    {Response(FALSE, FALSE, FALSE, <<>>, <<>>),
     Response(TRUE, FALSE, TRUE, <<>>, <<>>),
     Response(TRUE, TRUE, FALSE, <<>>, <<>>)}
    \cup {Response(TRUE, TRUE, TRUE, <<t>>, <<>>) : t \in ReplyTexts}
    \cup {Response(TRUE, TRUE, TRUE, <<>>, <<t>>) : t \in ReplyTexts}

\* the second call of a turn goes to the same backend; the model lets it fail,
\* answer plainly or answer in the form of a directive
SecondResponses ==
    {Response(FALSE, FALSE, FALSE, <<>>, <<>>),
     Response(TRUE, FALSE, TRUE, <<>>, <<>>)}
    \cup {Response(TRUE, TRUE, TRUE, <<t>>, <<t>>) : t \in {ReplyPlain, ReplyRun}}

ShellOutputs ==
    {ShellOutput(FALSE, FALSE, <<>>, <<>>),
     ShellOutput(TRUE, TRUE, <<"h","i","\n">>, <<>>),
     ShellOutput(TRUE, FALSE, <<>>, <<"s","h",":"," ",InvalidByte,"\n">>)}

SearchResponses ==
    {SearchResponse(FALSE, FALSE, FALSE, "", <<>>),
     SearchResponse(TRUE, FALSE, TRUE, "500 Internal Server Error", <<"o","o","p","s">>),
     SearchResponse(TRUE, TRUE, TRUE, "200 OK", <<"{","}">>)}

\* the ids Uuid::new_v4 can yield, and the value of session_id outside a session
SessionIds == {"uuid-1", "uuid-2"}
NoSession == "none"

\* Uuid::new_v4: an id no session has yet.  Ids are opaque and only compared
\* for equality, so which unused one is drawn makes no difference.
new_v4(sess) ==
    CHOOSE id \in SessionIds \cup {NoSession} :
        \/ id \in SessionIds /\ id \notin {r.id : r \in sess}
        \/ id = NoSession /\ SessionIds \subseteq {r.id : r \in sess}

(***************************************************************************)
(* State.                                                                  *)
(***************************************************************************)
VARIABLES
    provider,            \* config.provider, fixed by main before the menu
    sessions,            \* table sessions: rows [id, created_at]
    messages,            \* table messages: rows [id, session_id, role, content]
    now,                 \* the store's clock (CURRENT_TIMESTAMP)
    pc,                  \* where the process is
    session_id,          \* start_chat_session: session_id
    web_search_enabled,  \* start_chat_session: web_search_enabled
    history,             \* start_chat_session: history
    \* bookkeeping of the verification, not read by any action's guard
    turn,                \* number of turns begun in this session
    inputsRead,          \* number of turns begun in this run of the process
    trace,               \* what the current turn has done so far
    replies,             \* the replies call_llm has returned in the current turn
    turnStart,           \* history length and stored log when the turn began, and
                         \* how the turn before it ended
    origin               \* per stored row: the history index and turn it came from

vars == <<provider, sessions, messages, now, pc, session_id, web_search_enabled,
          history, turn, inputsRead, trace, replies, turnStart, origin>>

store == <<sessions, messages, now>>
bookkeeping == <<turn, inputsRead, trace, replies, turnStart, origin>>

\* CURRENT_TIMESTAMP at an insert into sessions: time is counted from the first
\* insert and has since stayed or advanced (only the order of timestamps is
\* ever observed)
CurrentTimestamps == IF sessions = {} THEN {now} ELSE {now, now + 1}

\* the log of the running session as load_history returns it
Stored == load_history(messages, session_id)

Init ==
    /\ provider \in Providers
    /\ sessions = {}
    /\ messages = {}
    /\ now = 0
    /\ pc = "Menu"
    /\ session_id = NoSession
    /\ web_search_enabled = FALSE
    /\ history = <<>>
    /\ turn = 0
    /\ inputsRead = 0
    /\ trace = <<>>
    /\ replies = <<>>
    /\ turnStart = [hlen |-> 0, stored |-> <<>>, prev |-> "none"]
    /\ origin = {}

(***************************************************************************)
(* main: the menu.  Options 2-4 (list, view, export) only read the store   *)
(* and print; they change nothing of the state and are left out.            *)
(***************************************************************************)
\* menu choice "1": start_chat_session up to the first prompt (main.rs:220-250).
StartChatSession(choice, id, t) ==
    /\ pc = "Menu"
    /\ id = new_v4(sessions)
    /\ t \in CurrentTimestamps
    /\ now' = t
    /\ sessions' = save_session(sessions, id, t)
    /\ session_id' = id
    /\ web_search_enabled' = eq_ignore_ascii_case(trim(choice), <<"y">>)
    /\ history' = <<Message("system", system_prompt(web_search_enabled', provider))>>
    /\ pc' = "AwaitingInput"
    /\ turn' = 0
    /\ trace' = <<>>
    /\ replies' = <<>>
    /\ turnStart' = [hlen |-> 1, stored |-> <<>>, prev |-> "none"]
    /\ UNCHANGED <<provider, messages, inputsRead, origin>>

\* menu choice "5"
Quit ==
    /\ pc = "Menu"
    /\ pc' = "Exited"
    /\ UNCHANGED <<provider, store, session_id, web_search_enabled, history, bookkeeping>>

(***************************************************************************)
(* start_chat_session: the turn loop (main.rs:252-344).                    *)
(***************************************************************************)
\* user_input after trim (main.rs:257)
user_input(line) == trim(line)

IsExit(line) ==
    \/ eq_ignore_ascii_case(user_input(line), <<"e","x","i","t">>)
    \/ eq_ignore_ascii_case(user_input(line), <<"q","u","i","t">>)

\* variant: an empty line is pushed and saved like any input, without a call
ReadEmptyInputPushed(line) ==
    /\ pc = "AwaitingInput"
    /\ inputsRead < MaxInputs
    /\ user_input(line) = <<>>
    /\ history' = Append(history, Message("user", user_input(line)))
    /\ messages' = save_message(messages, session_id, "user", user_input(line))
    /\ inputsRead' = inputsRead + 1
    /\ UNCHANGED <<provider, sessions, now, pc, session_id, web_search_enabled,
                   turn, trace, replies, turnStart, origin>>

\* main.rs:259-261: an empty line, continue
ReadEmptyInput(line) ==
    /\ pc = "AwaitingInput"
    /\ user_input(line) = <<>>
    /\ UNCHANGED vars

\* main.rs:263-266: exit or quit, break, back to the menu
ReadExit(line) ==
    /\ pc = "AwaitingInput"
    /\ user_input(line) # <<>>
    /\ IsExit(line)
    /\ pc' = "Menu"
    /\ session_id' = NoSession
    /\ web_search_enabled' = FALSE
    /\ history' = <<>>
    /\ turn' = 0
    /\ trace' = <<>>
    /\ replies' = <<>>
    /\ turnStart' = [hlen |-> 0, stored |-> <<>>, prev |-> "none"]
    /\ UNCHANGED <<provider, store, inputsRead, origin>>

\* the row a save_message is about to write, for the bookkeeping
OriginOf(hidx, t) == [id |-> NextRowId(messages), hidx |-> hidx, turn |-> t]

\* main.rs:268-276: push the user message, save it, call the model
ReadUserInput(line) ==
    /\ pc = "AwaitingInput"
    /\ inputsRead < MaxInputs
    /\ user_input(line) # <<>>
    /\ ~IsExit(line)
    /\ history' = Append(history, Message("user", user_input(line)))
    /\ messages' = save_message(messages, session_id, "user", user_input(line))
    /\ pc' = "CallingModel"
    /\ turn' = turn + 1
    /\ inputsRead' = inputsRead + 1
    /\ trace' = <<"call_llm">>
    /\ replies' = <<>>
    /\ turnStart' = [hlen |-> Len(history), stored |-> Stored,
                     prev |-> IF trace = <<>> THEN "none" ELSE trace[Len(trace)]]
    /\ origin' = origin \cup {OriginOf(Len(history'), turn')}
    /\ UNCHANGED <<provider, sessions, now, session_id, web_search_enabled>>

\* variant: the failed turn's user message is popped from the history
FirstCallFailsRollback(resp) ==
    /\ pc = "CallingModel"
    /\ ~call_llm(provider, resp).ok
    /\ pc' = "AwaitingInput"
    /\ trace' = Append(trace, "API Error")
    /\ history' = SubSeq(history, 1, Len(history) - 1)
    /\ UNCHANGED <<provider, store, session_id, web_search_enabled,
                   turn, inputsRead, replies, turnStart, origin>>

\* main.rs:339-342: the first call returns Err
FirstCallFails(resp) ==
    /\ pc = "CallingModel"
    /\ ~call_llm(provider, resp).ok
    /\ pc' = "AwaitingInput"
    /\ trace' = Append(trace, "API Error")
    /\ UNCHANGED <<provider, store, session_id, web_search_enabled, history,
                   turn, inputsRead, replies, turnStart, origin>>

\* main.rs:335-337: print the reply, push it, save it
Finalize(assistant_reply) ==
    /\ history' = Append(history, Message("assistant", assistant_reply))
    /\ messages' = save_message(messages, session_id, "assistant", assistant_reply)
    /\ pc' = "AwaitingInput"
    /\ trace' = Append(trace, "Assistant:")
    /\ replies' = Append(replies, assistant_reply)
    /\ origin' = origin \cup {OriginOf(Len(history'), turn)}
    /\ UNCHANGED <<provider, sessions, now, session_id, web_search_enabled,
                   turn, inputsRead, turnStart>>

\* variant: with web search off no directive is looked for at all
ReplyIsFinalWhenToolsOff(resp) ==
    /\ pc = "CallingModel"
    /\ call_llm(provider, resp).ok
    /\ \/ ~web_search_enabled
       \/ /\ ~IsRunCommand(call_llm(provider, resp).reply)
          /\ ~IsSearch(web_search_enabled, call_llm(provider, resp).reply)
    /\ Finalize(call_llm(provider, resp).reply)

\* the first call returns a reply that is no directive (tool_used stays false)
ReplyIsFinal(resp) ==
    /\ pc = "CallingModel"
    /\ call_llm(provider, resp).ok
    /\ ~IsRunCommand(call_llm(provider, resp).reply)
    /\ ~IsSearch(web_search_enabled, call_llm(provider, resp).reply)
    /\ Finalize(call_llm(provider, resp).reply)

\* variant: the empty directive is pushed to the history before the continue
ReplyIsEmptyCommandPushed(resp) ==
    /\ pc = "CallingModel"
    /\ call_llm(provider, resp).ok
    /\ IsRunCommand(call_llm(provider, resp).reply)
    /\ command_str(call_llm(provider, resp).reply) = <<>>
    /\ history' = Append(history, Message("assistant", call_llm(provider, resp).reply))
    /\ pc' = "AwaitingInput"
    /\ trace' = Append(trace, "No command provided")
    /\ replies' = Append(replies, call_llm(provider, resp).reply)
    /\ UNCHANGED <<provider, store, session_id, web_search_enabled,
                   turn, inputsRead, turnStart, origin>>

\* main.rs:290-293: a shell directive without a command, continue
ReplyIsEmptyCommand(resp) ==
    /\ pc = "CallingModel"
    /\ call_llm(provider, resp).ok
    /\ IsRunCommand(call_llm(provider, resp).reply)
    /\ command_str(call_llm(provider, resp).reply) = <<>>
    /\ pc' = "AwaitingInput"
    /\ trace' = Append(trace, "No command provided")
    /\ replies' = Append(replies, call_llm(provider, resp).reply)
    /\ UNCHANGED <<provider, store, session_id, web_search_enabled, history,
                   turn, inputsRead, turnStart, origin>>

\* variant: the directive is saved when it is pushed
ReplyRunsCommandSaved(resp, output) ==
    /\ pc = "CallingModel"
    /\ call_llm(provider, resp).ok
    /\ IsRunCommand(call_llm(provider, resp).reply)
    /\ command_str(call_llm(provider, resp).reply) # <<>>
    /\ output.spawned
    /\ history' = history \o <<Message("assistant", call_llm(provider, resp).reply),
                               CommandOutputMessage(output)>>
    /\ messages' = save_message(messages, session_id, "assistant",
                                call_llm(provider, resp).reply)
    /\ origin' = origin \cup {OriginOf(Len(history) + 1, turn)}
    /\ pc' = "CallingModelAgain"
    /\ trace' = trace \o <<"sh", "call_llm">>
    /\ replies' = Append(replies, call_llm(provider, resp).reply)
    /\ UNCHANGED <<provider, sessions, now, session_id, web_search_enabled,
                   turn, inputsRead, turnStart>>

\* main.rs:295-311 and 323-324: run the command, push the directive and the
\* output, call the model again
ReplyRunsCommand(resp, output) ==
    /\ pc = "CallingModel"
    /\ call_llm(provider, resp).ok
    /\ IsRunCommand(call_llm(provider, resp).reply)
    /\ command_str(call_llm(provider, resp).reply) # <<>>
    /\ output.spawned
    /\ history' = history \o <<Message("assistant", call_llm(provider, resp).reply),
                               CommandOutputMessage(output)>>
    /\ pc' = "CallingModelAgain"
    /\ trace' = trace \o <<"sh", "call_llm">>
    /\ replies' = Append(replies, call_llm(provider, resp).reply)
    /\ UNCHANGED <<provider, store, session_id, web_search_enabled,
                   turn, inputsRead, turnStart, origin>>

\* main.rs:297-301: output() returns Err and expect() panics
ShellCannotStart(resp, output) ==
    /\ pc = "CallingModel"
    /\ call_llm(provider, resp).ok
    /\ IsRunCommand(call_llm(provider, resp).reply)
    /\ command_str(call_llm(provider, resp).reply) # <<>>
    /\ ~output.spawned
    /\ pc' = "Panicked"
    /\ trace' = Append(trace, "panic")
    /\ replies' = Append(replies, call_llm(provider, resp).reply)
    /\ UNCHANGED <<provider, store, session_id, web_search_enabled, history,
                   turn, inputsRead, turnStart, origin>>

\* main.rs:312-321 and 323-324: search, push the directive and the result,
\* call the model again
ReplySearches(resp, r) ==
    /\ pc = "CallingModel"
    /\ call_llm(provider, resp).ok
    /\ IsSearch(web_search_enabled, call_llm(provider, resp).reply)
    /\ history' = history \o <<Message("assistant", call_llm(provider, resp).reply),
                               SearchResultMessage(call_llm(provider, resp).reply, r)>>
    /\ pc' = "CallingModelAgain"
    /\ trace' = trace \o <<"web_search", "call_llm">>
    /\ replies' = Append(replies, call_llm(provider, resp).reply)
    /\ UNCHANGED <<provider, store, session_id, web_search_enabled,
                   turn, inputsRead, turnStart, origin>>

\* variant: the failed turn's directive and tool result are popped
SecondCallFailsRollback(resp) ==
    /\ pc = "CallingModelAgain"
    /\ ~call_llm(provider, resp).ok
    /\ pc' = "AwaitingInput"
    /\ trace' = Append(trace, "API Error after tool use")
    /\ history' = SubSeq(history, 1, Len(history) - 2)
    /\ UNCHANGED <<provider, store, session_id, web_search_enabled,
                   turn, inputsRead, replies, turnStart, origin>>

\* variant: the directive is saved when the second call fails
SecondCallFailsSaved(resp) ==
    /\ pc = "CallingModelAgain"
    /\ ~call_llm(provider, resp).ok
    /\ pc' = "AwaitingInput"
    /\ trace' = Append(trace, "API Error after tool use")
    /\ messages' = save_message(messages, session_id, "assistant", replies[1])
    /\ origin' = origin \cup {OriginOf(Len(history) - 1, turn)}
    /\ UNCHANGED <<provider, sessions, now, session_id, web_search_enabled, history,
                   turn, inputsRead, replies, turnStart>>

\* main.rs:328-331: the second call returns Err
SecondCallFails(resp) ==
    /\ pc = "CallingModelAgain"
    /\ ~call_llm(provider, resp).ok
    /\ pc' = "AwaitingInput"
    /\ trace' = Append(trace, "API Error after tool use")
    /\ UNCHANGED <<provider, store, session_id, web_search_enabled, history,
                   turn, inputsRead, replies, turnStart, origin>>

\* variant: the second reply is inspected too, and a shell directive in it runs
SecondCallInspected(resp) ==
    /\ pc = "CallingModelAgain"
    /\ call_llm(provider, resp).ok
    /\ IF /\ IsRunCommand(call_llm(provider, resp).reply)
          /\ command_str(call_llm(provider, resp).reply) # <<>>
       THEN /\ history' = history
                   \o <<Message("assistant", call_llm(provider, resp).reply),
                        CommandOutputMessage(ShellOutput(TRUE, TRUE, <<>>, <<>>))>>
            /\ pc' = "CallingModelAgain"
            /\ trace' = trace \o <<"sh", "call_llm">>
            /\ replies' = Append(replies, call_llm(provider, resp).reply)
            /\ UNCHANGED <<provider, store, session_id, web_search_enabled,
                           turn, inputsRead, turnStart, origin>>
       ELSE Finalize(call_llm(provider, resp).reply)

\* main.rs:325-327 and 335-337: the second reply is the final reply
SecondCallSucceeds(resp) ==
    /\ pc = "CallingModelAgain"
    /\ call_llm(provider, resp).ok
    /\ Finalize(call_llm(provider, resp).reply)

Next ==
    \/ \E choice \in WebSearchChoices, id \in SessionIds, t \in CurrentTimestamps :
           StartChatSession(choice, id, t)
    \/ Quit
    \/ \E line \in UserInputs : ReadEmptyInput(line)
    \/ \E line \in UserInputs : ReadExit(line)
    \/ \E line \in UserInputs : ReadUserInput(line)
    \/ \E resp \in Responses : FirstCallFails(resp)
    \/ \E resp \in Responses : ReplyIsFinal(resp)
    \/ \E resp \in Responses : ReplyIsEmptyCommand(resp)
    \/ \E resp \in Responses, output \in ShellOutputs : ReplyRunsCommand(resp, output)
    \/ \E resp \in Responses, output \in ShellOutputs : ShellCannotStart(resp, output)
    \/ \E resp \in Responses, r \in SearchResponses : ReplySearches(resp, r)
    \/ \E resp \in SecondResponses : SecondCallFails(resp)
    \/ \E resp \in SecondResponses : SecondCallSucceeds(resp)

Spec == Init /\ [][Next]_vars

(***************************************************************************)
(* Vocabulary of the properties.                                           *)
(***************************************************************************)
IsPrefix(a, b) == Len(a) <= Len(b) /\ SubSeq(b, 1, Len(a)) = a

IsUserOrAssistant(m) == m.role \in {"user", "assistant"}

Count(seq, x) == Cardinality({i \in 1..Len(seq) : seq[i] = x})

ModelCalls == Count(trace, "call_llm")
ToolExecutions == Count(trace, "sh") + Count(trace, "web_search")

\* the turn that began last has ended, and this is how
TurnEnded(how) ==
    pc = "AwaitingInput" /\ trace # <<>> /\ trace[Len(trace)] = how

\* the user message of the current turn, as pushed at main.rs:268
TurnUserMessage == history[turnStart.hlen + 1]

\* the rows of the running session, in id order, and where each came from
SessionRows == SelectRows(messages, session_id)
HasOrigin(r) == \E o \in origin : o.id = r.id
OriginOfRow(r) == CHOOSE o \in origin : o.id = r.id

\* some stored row of the running session came from history[i]
IsStoredIndex(i) ==
    \E r \in messages :
        r.session_id = session_id /\ HasOrigin(r) /\ OriginOfRow(r).hidx = i

\* the last reply call_llm returned in the current turn
LastReply == replies[Len(replies)]

(***************************************************************************)
(* C1.  Whenever the loop is back at the prompt, load_history for the      *)
(* session id returns exactly the user and assistant messages of the       *)
(* in-memory history, with the same role, content and order.               *)
(***************************************************************************)
C1_StoreReproducesHistory ==
    pc = "AwaitingInput" =>
        Stored = SelectSeq(history, IsUserOrAssistant)

(***************************************************************************)
(* C2.  Whenever a model call is in flight with the Gemini provider, the   *)
(* roles of the request's contents start with user and strictly alternate  *)
(* between user and model.                                                 *)
(***************************************************************************)
StrictlyAlternates(contents) ==
    /\ contents # <<>>
    /\ contents[1].role = "user"
    /\ \A i \in 1..(Len(contents) - 1) : contents[i].role # contents[i + 1].role

C2_GeminiAlternates ==
    (provider = "Gemini" /\ pc \in {"CallingModel", "CallingModelAgain"}) =>
        StrictlyAlternates(RequestEntries(provider, history))

(***************************************************************************)
(* C3.  A turn that ends with a final assistant reply has added to the     *)
(* store exactly the user message of the turn followed by one assistant    *)
(* message holding the final reply, with or without a tool round-trip, and *)
(* no two stored rows come from the same message of the history.           *)
(***************************************************************************)
C3_TurnPersistedOnce ==
    /\ TurnEnded("Assistant:") =>
           /\ TurnUserMessage.role = "user"
           /\ Stored = turnStart.stored
                         \o <<TurnUserMessage, Message("assistant", LastReply)>>
    /\ \A r \in messages : HasOrigin(r)
    /\ \A r1, r2 \in messages :
           (r1 # r2 /\ r1.session_id = r2.session_id) =>
               OriginOfRow(r1).hidx # OriginOfRow(r2).hidx

\* a second turn has ended with a final reply after a tool round-trip
C3_Witness ==
    TurnEnded("Assistant:") /\ ToolExecutions = 1 /\ turn = 2

(***************************************************************************)
(* C4.  The stored log of the session is in chronological order: its rows, *)
(* in the order load_history returns them, come from strictly increasing   *)
(* positions of the history and carry the message at that position, the    *)
(* rows of a turn come before the rows of every later turn, and every step *)
(* leaves each session's log a prefix of what it is afterwards.            *)
(***************************************************************************)
C4_Ordered ==
    LET rows == SessionRows
    IN  /\ \A i \in 1..Len(rows) :
               /\ HasOrigin(rows[i])
               /\ OriginOfRow(rows[i]).hidx \in 1..Len(history)
               /\ history[OriginOfRow(rows[i]).hidx]
                      = Message(rows[i].role, rows[i].content)
        /\ \A i, j \in 1..Len(rows) :
               i < j => /\ OriginOfRow(rows[i]).hidx < OriginOfRow(rows[j]).hidx
                        /\ OriginOfRow(rows[i]).turn <= OriginOfRow(rows[j]).turn

C4_AppendOnly ==
    \A sid \in SessionIds :
        IsPrefix(load_history(messages, sid), load_history(messages', sid))

C4_ChronologicalLog == []C4_Ordered /\ [][C4_AppendOnly]_vars

\* the log holds rows of two turns, the second turn's after the first's
C4_Witness ==
    /\ Len(SessionRows) >= 3
    /\ OriginOfRow(SessionRows[1]).turn = 1
    /\ OriginOfRow(SessionRows[Len(SessionRows)]).turn = 2

(***************************************************************************)
(* C5.  A turn with a tool round-trip whose second call succeeds has       *)
(* pushed, after the user message, the directive as an assistant message,  *)
(* the tool result as a system message and the second reply as an          *)
(* assistant message, in this order; of these only the second reply is     *)
(* stored.                                                                 *)
(***************************************************************************)
C5_ToolTurnShape ==
    (TurnEnded("Assistant:") /\ ToolExecutions > 0) =>
        LET n == turnStart.hlen
        IN  /\ Len(replies) = 2
            /\ Len(history) = n + 4
            /\ history[n + 1].role = "user"
            /\ history[n + 2] = Message("assistant", replies[1])
            /\ \/ IsRunCommand(replies[1])
               \/ IsSearch(web_search_enabled, replies[1])
            /\ history[n + 3].role = "system"
            /\ \/ starts_with(history[n + 3].content, <<"Command output:\n">>)
               \/ starts_with(history[n + 3].content, <<"Web search results for '">>)
            /\ history[n + 4] = Message("assistant", replies[2])
            /\ Stored = turnStart.stored
                          \o <<history[n + 1], Message("assistant", replies[2])>>
            /\ ~IsStoredIndex(n + 2)
            /\ ~IsStoredIndex(n + 3)
            /\ IsStoredIndex(n + 4)

\* a search round-trip has ended with a final reply
C5_Witness ==
    TurnEnded("Assistant:") /\ Count(trace, "web_search") = 1

(***************************************************************************)
(* C6.  When the first model call of a turn fails, the error is reported,  *)
(* the user message stays the last message of the history, no assistant    *)
(* message reaches the history or the store, no tool runs and the loop is  *)
(* back at the prompt.                                                     *)
(***************************************************************************)
C6_FirstCallFailure ==
    (trace # <<>> /\ trace[Len(trace)] = "API Error") =>
        /\ pc = "AwaitingInput"
        /\ trace = <<"call_llm", "API Error">>
        /\ Len(history) = turnStart.hlen + 1
        /\ history[Len(history)].role = "user"
        /\ Stored = Append(turnStart.stored, history[Len(history)])

\* a first call has failed in a turn after a tool round-trip
C6_Witness ==
    TurnEnded("API Error") /\ turn = 2 /\ Len(history) > 3

(***************************************************************************)
(* C7.  As claimed: when the second model call of a turn fails, the store  *)
(* holds the same messages as before the user input of the turn.           *)
(***************************************************************************)
C7_NothingPersisted ==
    TurnEnded("API Error after tool use") => Stored = turnStart.stored

(***************************************************************************)
(* C7, amended.  When the second model call of a turn fails, the loop is   *)
(* back at the prompt and the store holds the messages it held before the  *)
(* turn plus the user message of the turn, stored before the first call:   *)
(* nothing else of the turn is stored.                                     *)
(***************************************************************************)
C7_OnlyUserMessagePersisted ==
    (trace # <<>> /\ trace[Len(trace)] = "API Error after tool use") =>
        /\ pc = "AwaitingInput"
        /\ TurnUserMessage.role = "user"
        /\ Stored = Append(turnStart.stored, TurnUserMessage)

\* a second call has failed after a shell command
C7_Witness ==
    TurnEnded("API Error after tool use") /\ Count(trace, "sh") = 1

(***************************************************************************)
(* C8.  After a second-call failure the history ends with the assistant    *)
(* directive and the system tool result of the failed turn, neither of     *)
(* which has a row in the store; and the request of the first call of the  *)
(* next turn carries both, in order, right before the new user input.      *)
(***************************************************************************)
C8_UnstoredPairStaysInContext ==
    /\ TurnEnded("API Error after tool use") =>
           LET n == turnStart.hlen
           IN  /\ Len(history) = n + 3
               /\ history[n + 2] = Message("assistant", replies[1])
               /\ history[n + 3].role = "system"
               /\ ~IsStoredIndex(n + 2)
               /\ ~IsStoredIndex(n + 3)
    /\ (pc = "CallingModel" /\ turnStart.prev = "API Error after tool use") =>
           LET n == turnStart.hlen
               entries == RequestEntries(provider, history)
               k == Len(entries)
           IN  /\ Len(history) = n + 1
               /\ n >= 4
               /\ history[n - 1].role = "assistant"
               /\ \/ IsRunCommand(history[n - 1].content)
                  \/ IsSearch(web_search_enabled, history[n - 1].content)
               /\ history[n].role = "system"
               /\ ~IsStoredIndex(n - 1)
               /\ ~IsStoredIndex(n)
               /\ k >= 3
               /\ entries[k - 2] =
                      [role |-> IF provider = "Gemini" THEN "model" ELSE "assistant",
                       text |-> history[n - 1].content]
               /\ entries[k - 1] =
                      [role |-> IF provider = "Gemini" THEN "user" ELSE "system",
                       text |-> history[n].content]
               /\ entries[k] = [role |-> "user", text |-> history[n + 1].content]

\* the first call of the turn after a second-call failure is in flight
C8_Witness ==
    pc = "CallingModel" /\ turnStart.prev = "API Error after tool use"

(***************************************************************************)
(* C9.  As claimed: a turn whose reply is a RUN_COMMAND directive with an  *)
(* empty command has no tool execution, no model call once the reply is    *)
(* in, and no persisted message for its input.                             *)
(***************************************************************************)
C9_NoCallNothingPersisted ==
    TurnEnded("No command provided") =>
        /\ ToolExecutions = 0
        /\ ModelCalls = 1
        /\ Stored = turnStart.stored

(***************************************************************************)
(* C9, amended.  A turn whose reply is a RUN_COMMAND directive with an     *)
(* empty command yields the warning, no tool execution, no model call      *)
(* beyond the one that returned the directive, and no persisted message    *)
(* beyond the user message stored before that call; the directive is not   *)
(* pushed to the history and the loop is back at the prompt.               *)
(***************************************************************************)
C9_EmptyCommandTurn ==
    (trace # <<>> /\ trace[Len(trace)] = "No command provided") =>
        /\ pc = "AwaitingInput"
        /\ trace = <<"call_llm", "No command provided">>
        /\ Len(replies) = 1
        /\ IsRunCommand(replies[1])
        /\ command_str(replies[1]) = <<>>
        /\ Len(history) = turnStart.hlen + 1
        /\ TurnUserMessage.role = "user"
        /\ Stored = Append(turnStart.stored, TurnUserMessage)

\* an empty directive has ended a turn
C9_Witness ==
    TurnEnded("No command provided") /\ replies = <<ReplyRunEmpty>>

(***************************************************************************)
(* C10.  A turn makes at most two model calls and at most one tool         *)
(* execution, the loop is at the prompt only between turns, and a second   *)
(* reply always ends the turn as the final reply: it is pushed and stored  *)
(* as it is and nothing runs after it, also when it is a directive.        *)
(***************************************************************************)
TurnEndings ==
    {"Assistant:", "API Error", "API Error after tool use", "No command provided"}

C10_OneRoundTrip ==
    /\ ModelCalls <= 2
    /\ ToolExecutions <= 1
    /\ Len(replies) <= ModelCalls
    /\ pc = "AwaitingInput" => (trace = <<>> \/ trace[Len(trace)] \in TurnEndings)
    /\ pc \in {"CallingModel", "CallingModelAgain"} => trace[Len(trace)] = "call_llm"
    /\ Len(replies) = 2 =>
           /\ TurnEnded("Assistant:")
           /\ trace \in {<<"call_llm", "sh", "call_llm", "Assistant:">>,
                         <<"call_llm", "web_search", "call_llm", "Assistant:">>}
           /\ history[Len(history)] = Message("assistant", replies[2])
           /\ Stored # <<>>
           /\ Stored[Len(Stored)] = Message("assistant", replies[2])

\* a second reply in the form of a directive has ended the turn
C10_Witness ==
    Len(replies) = 2 /\ IsRunCommand(replies[2]) /\ command_str(replies[2]) # <<>>

(***************************************************************************)
(* C11.  In a session with web search disabled, a reply that begins with   *)
(* [SEARCH: is the final reply: no search runs, no second model call is    *)
(* made, no system message is pushed, and the reply is pushed and stored   *)
(* as the assistant message of the turn.                                   *)
(***************************************************************************)
BeginsWithSearch(reply) ==
    starts_with(to_uppercase(trim_matches(trim(reply), QuoteChars)), SearchPrefix)

C11_SearchOffIsPlainReply ==
    (~web_search_enabled /\ replies # <<>> /\ BeginsWithSearch(replies[1])) =>
        /\ pc = "AwaitingInput"
        /\ trace = <<"call_llm", "Assistant:">>
        /\ Len(replies) = 1
        /\ Len(history) = turnStart.hlen + 2
        /\ history[turnStart.hlen + 2] = Message("assistant", replies[1])
        /\ Stored = turnStart.stored
                      \o <<TurnUserMessage, Message("assistant", replies[1])>>

\* a [SEARCH: reply has arrived in a session without web search
C11_Witness ==
    ~web_search_enabled /\ session_id # NoSession /\ replies = <<ReplySearch>>

(***************************************************************************)
(* C12.  Once a directive with a non-empty command or a search directive   *)
(* is detected, the tool step ends neither the turn nor the process: for   *)
(* every tool outcome a system message with a textual result is pushed     *)
(* and the second model call is made.                                      *)
(***************************************************************************)
DirectiveDetected ==
    /\ replies # <<>>
    /\ \/ IsRunCommand(replies[1]) /\ command_str(replies[1]) # <<>>
       \/ IsSearch(web_search_enabled, replies[1])

C12_ToolStepNeverFails ==
    DirectiveDetected =>
        /\ pc # "Panicked"
        /\ ToolExecutions = 1
        /\ ModelCalls = 2
        /\ Len(history) >= turnStart.hlen + 3
        /\ history[turnStart.hlen + 3].role = "system"

(***************************************************************************)
(* C13.  For every response with a success status whose body is not JSON   *)
(* or lacks the provider's reply field, call_llm returns Ok with the fixed *)
(* text "[No response]"; that text is no directive, and the turn that      *)
(* receives it ends with it pushed and stored as the assistant message.    *)
(***************************************************************************)
LacksReply(resp) ==
    \/ ~resp.json
    \/ provider = "Gemini" /\ resp.candidates = <<>>
    \/ provider # "Gemini" /\ resp.choices = <<>>

C13_MalformedIsSentinel ==
    /\ pc \in {"CallingModel", "CallingModelAgain"} =>
           /\ \A resp \in Responses \cup SecondResponses :
                  (resp.sent /\ resp.success /\ LacksReply(resp)) =>
                      call_llm(provider, resp) = [ok |-> TRUE, reply |-> NoResponse]
           /\ ~IsRunCommand(NoResponse)
           /\ ~IsSearch(TRUE, NoResponse)
    /\ (replies # <<>> /\ replies[1] = NoResponse) =>
           /\ pc = "AwaitingInput"
           /\ trace = <<"call_llm", "Assistant:">>
           /\ history[Len(history)] = Message("assistant", NoResponse)
           /\ Stored = turnStart.stored
                         \o <<TurnUserMessage, Message("assistant", NoResponse)>>

\* a turn has received the fixed text and ended
C13_Witness ==
    TurnEnded("Assistant:") /\ replies = <<NoResponse>>

(***************************************************************************)
(* C14.  In a session the history begins with the initial system prompt,   *)
(* followed by no second system message, and every step of the session     *)
(* leaves the history a prefix of what it is afterwards: nothing is        *)
(* removed, replaced or reordered, also when a call fails.                 *)
(***************************************************************************)
C14_StartsWithPrompt ==
    session_id # NoSession =>
        /\ history # <<>>
        /\ history[1] = Message("system", system_prompt(web_search_enabled, provider))
        /\ Len(history) >= 2 => history[2].role = "user"

C14_OnlyAppends ==
    (session_id # NoSession /\ session_id' = session_id) => IsPrefix(history, history')

C14_HistoryGrows == []C14_StartsWithPrompt /\ [][C14_OnlyAppends]_vars

\* a turn has begun after a turn that ended without a final reply
C14_Witness ==
    /\ pc = "CallingModel"
    /\ turnStart.prev \in {"API Error", "API Error after tool use", "No command provided"}
    /\ Len(history) >= 3

(***************************************************************************)
(* Directive detection on its own: a session has been started, one input   *)
(* has been read and the first model call is in flight; the backend then   *)
(* answers with any reply of InspectReplies, and the turn loop handles it  *)
(* up to the next model call.                                              *)
(***************************************************************************)
\* zero, one or two quote characters around a reply
QuoteWraps == {<<>>, <<"'">>, <<"\"", "'">>, <<Backtick, Backtick>>}

InspectCores ==
    {<<"4">>,
     <<"[","R","U","N","_","C","O","M","M","A","N","D"," ","l","s","]">>,
     <<"[","R","u","n","_","C","o","m","m","a","n","d"," "," ","l","s","]","]">>,
     <<"[","r","u","n","_","c","o","m","m","a","n","d"," ","l","s">>,
     <<"[","R","U","N","_","C","O","M","M","A","N","D"," ","]">>,
     <<"[","R","U","N","_","C","O","M","M","A","N","D","]">>,
     <<"[","S","E","A","R","C","H",":"," ","q","]">>,
     <<"[","s","e","a","r","c","h",":","q",":","]","]">>,
     <<"R","U","N","_","C","O","M","M","A","N","D"," ","l","s">>}

InspectReplies ==
    {pre \o core \o post \o tail :
        pre \in QuoteWraps, core \in InspectCores, post \in QuoteWraps,
        tail \in {<<>>, <<"\n">>}}

InspectResponses == {Response(TRUE, TRUE, TRUE, <<t>>, <<t>>) : t \in InspectReplies}

InitInspect ==
    /\ provider \in Providers
    /\ web_search_enabled \in BOOLEAN
    /\ sessions = save_session({}, "uuid-1", 0)
    /\ now = 0
    /\ session_id = "uuid-1"
    /\ history = <<Message("system", system_prompt(web_search_enabled, provider)),
                   Message("user", user_input(InputHi))>>
    /\ messages = save_message({}, "uuid-1", "user", user_input(InputHi))
    /\ pc = "CallingModel"
    /\ turn = 1
    /\ inputsRead = 1
    /\ trace = <<"call_llm">>
    /\ replies = <<>>
    /\ turnStart = [hlen |-> 1, stored |-> <<>>, prev |-> "none"]
    /\ origin = {[id |-> 1, hidx |-> 2, turn |-> 1]}

NextInspect ==
    \/ \E resp \in InspectResponses : ReplyIsFinal(resp)
    \/ \E resp \in InspectResponses : ReplyIsEmptyCommand(resp)
    \/ \E resp \in InspectResponses, output \in ShellOutputs : ReplyRunsCommand(resp, output)
    \/ \E resp \in InspectResponses, output \in ShellOutputs : ShellCannotStart(resp, output)
    \/ \E resp \in InspectResponses, r \in SearchResponses : ReplySearches(resp, r)

SpecInspect == InitInspect /\ [][NextInspect]_vars

(***************************************************************************)
(* C15.  As claimed: detection ignores the case of the two prefixes,       *)
(* removes exactly one quote character from each end of the reply before   *)
(* the prefix test, and removes exactly one trailing ] from the command or *)
(* the query.                                                              *)
(***************************************************************************)
\* one leading and one trailing character of cs removed, if there
StripOneEach(s, cs) ==
    LET a == IF s # <<>> /\ s[1] \in cs THEN Tail(s) ELSE s
    IN  IF a # <<>> /\ a[Len(a)] \in cs THEN SubSeq(a, 1, Len(a) - 1) ELSE a

\* one trailing character of cs removed, if there
StripOneEnd(s, cs) ==
    IF s # <<>> /\ s[Len(s)] \in cs THEN SubSeq(s, 1, Len(s) - 1) ELSE s

OneLayerReply(reply) == StripOneEach(trim(reply), QuoteChars)

OneLayerIsRun(reply) ==
    starts_with(to_uppercase(OneLayerReply(reply)), RunCommandPrefix)

OneLayerCommand(reply) ==
    LET t == OneLayerReply(reply)
        pos == find(t, " ")
    IN  IF pos # 0 THEN StripOneEnd(trim_start(SubSeq(t, pos, Len(t))), {"]"}) ELSE <<>>

OneLayerIsSearch(enabled, reply) ==
    /\ ~OneLayerIsRun(reply)
    /\ enabled
    /\ starts_with(to_uppercase(OneLayerReply(reply)), SearchPrefix)

OneLayerQuery(reply) ==
    StripOneEnd(splitn2_nth1(OneLayerReply(reply), ":"), {"]"})

C15_OneLayerStripped ==
    replies # <<>> =>
        LET reply == replies[1]
        IN  /\ IsRunCommand(reply) = OneLayerIsRun(reply)
            /\ IsRunCommand(reply) => command_str(reply) = OneLayerCommand(reply)
            /\ IsSearch(web_search_enabled, reply)
                   = OneLayerIsSearch(web_search_enabled, reply)
            /\ IsSearch(web_search_enabled, reply) =>
                   query_part(reply) = OneLayerQuery(reply)

(***************************************************************************)
(* C16.  An input that is empty after trimming changes nothing: while the  *)
(* engine awaits input such a line is neither taken as a turn nor as an    *)
(* exit, and a step that reads a line and leaves the engine awaiting input *)
(* leaves the history, the store and the record of calls and tool runs as  *)
(* they were.                                                              *)
(***************************************************************************)
EmptyInputs == {line \in UserInputs : user_input(line) = <<>>}

C16_EmptyLineOnlyReprompts ==
    pc = "AwaitingInput" =>
        \A line \in EmptyInputs :
            /\ ENABLED ReadEmptyInput(line)
            /\ ~ENABLED ReadUserInput(line)
            /\ ~ENABLED ReadExit(line)

C16_RepromptFrame ==
    (pc = "AwaitingInput" /\ pc' = "AwaitingInput") =>
        UNCHANGED <<history, sessions, messages, now, session_id, trace, replies, turn>>

C16_EmptyInputChangesNothing ==
    []C16_EmptyLineOnlyReprompts /\ [][C16_RepromptFrame]_vars

\* a session with a finished turn behind it awaits input and is handed a blank line
C16_Witness ==
    /\ pc = "AwaitingInput"
    /\ TurnEnded("Assistant:")
    /\ Len(Stored) >= 2
    /\ InputBlank \in EmptyInputs
    /\ ENABLED ReadEmptyInput(InputBlank)

(***************************************************************************)
(* The store on its own: any sequence of save_session and save_message     *)
(* calls on an open database, with any session id and a clock that does   *)
(* not go back.  trace is the log of the calls made and session_id the id  *)
(* passed to the last one.                                                 *)
(***************************************************************************)
MaxCalls == 4

InitStore ==
    /\ provider \in Providers
    /\ sessions = {}
    /\ messages = {}
    /\ now = 0
    /\ pc = "Menu"
    /\ session_id = NoSession
    /\ web_search_enabled = FALSE
    /\ history = <<>>
    /\ turn = 0
    /\ inputsRead = 0
    /\ trace = <<>>
    /\ replies = <<>>
    /\ turnStart = [hlen |-> 0, stored |-> <<>>, prev |-> "none"]
    /\ origin = {}

\* save_session (main.rs:62-67) with CURRENT_TIMESTAMP read as t
SaveSession(id, t) ==
    /\ Len(trace) < MaxCalls
    /\ t \in CurrentTimestamps
    /\ sessions' = save_session(sessions, id, t)
    /\ now' = t
    /\ session_id' = id
    /\ trace' = Append(trace, "save_session")
    /\ UNCHANGED <<provider, messages, pc, web_search_enabled, history, turn,
                   inputsRead, replies, turnStart, origin>>

\* save_message (main.rs:55-60)
SaveMessage(id, role, content) ==
    /\ Len(trace) < MaxCalls
    /\ messages' = save_message(messages, id, role, content)
    /\ session_id' = id
    /\ trace' = Append(trace, "save_message")
    /\ UNCHANGED <<provider, sessions, now, pc, web_search_enabled, history, turn,
                   inputsRead, replies, turnStart, origin>>

NextStore ==
    \/ \E id \in SessionIds, t \in CurrentTimestamps : SaveSession(id, t)
    \/ \E id \in SessionIds, role \in {"user", "assistant"} :
           SaveMessage(id, role, user_input(InputHi))

SpecStore == InitStore /\ [][NextStore]_vars

(***************************************************************************)
(* C17.  Session creation is idempotent: after any sequence of             *)
(* save_session and save_message calls, save_session with an id that is    *)
(* already there succeeds and leaves the sessions table as it was; no id   *)
(* ever has two rows.                                                      *)
(***************************************************************************)
C17_OneRowPerId ==
    /\ \A r, q \in sessions : r.id = q.id => r = q
    /\ Len(trace) < MaxCalls =>
           \A id \in {r.id : r \in sessions} : ENABLED SaveSession(id, now + 1)

C17_ExistingIdIsNoOp ==
    (/\ trace' = Append(trace, "save_session")
     /\ \E r \in sessions : r.id = session_id') =>
        /\ sessions' = sessions
        /\ messages' = messages

C17_SaveSessionIdempotent == []C17_OneRowPerId /\ [][C17_ExistingIdIsNoOp]_vars

\* the last call was save_session for an id whose row is older than the call,
\* made after a save_message
C17_Witness ==
    /\ trace # <<>>
    /\ trace[Len(trace)] = "save_session"
    /\ \E r \in sessions : r.id = session_id /\ r.created_at < now
    /\ messages # {}

(***************************************************************************)
(* The session loop with every model call and every tool execution         *)
(* returning: reqwest's send and Command::output are blocking calls that   *)
(* come back with Ok or Err, after which the loop body runs on.            *)
(***************************************************************************)
FirstCallReturns ==
    \/ \E resp \in Responses : FirstCallFails(resp)
    \/ \E resp \in Responses : ReplyIsFinal(resp)
    \/ \E resp \in Responses : ReplyIsEmptyCommand(resp)
    \/ \E resp \in Responses, output \in ShellOutputs : ReplyRunsCommand(resp, output)
    \/ \E resp \in Responses, output \in ShellOutputs : ShellCannotStart(resp, output)
    \/ \E resp \in Responses, r \in SearchResponses : ReplySearches(resp, r)

SecondCallReturns ==
    \/ \E resp \in SecondResponses : SecondCallFails(resp)
    \/ \E resp \in SecondResponses : SecondCallSucceeds(resp)

FairSpec == Spec /\ WF_vars(FirstCallReturns) /\ WF_vars(SecondCallReturns)

(***************************************************************************)
(* C18.  Every turn terminates: with every model call and tool execution   *)
(* returning, a turn that has begun (a non-empty input other than exit or  *)
(* quit has been read and the model is being called) leads to the engine   *)
(* awaiting input again, the turn ended in a final reply or in a reported  *)
(* failure.                                                                *)
(***************************************************************************)
C18_TurnTerminates ==
    (pc = "CallingModel") ~>
        (\E how \in TurnEndings : TurnEnded(how))

(***************************************************************************)
(* C19.  A reply beginning with [RUN_COMMAND takes the shell branch in     *)
(* every session, whether or not web search was enabled: a command that is *)
(* not empty is handed to sh and nothing else is done with the reply (no   *)
(* search, no finalizing of the directive as a reply); when sh has run,    *)
(* the directive and the command output are pushed.  The web-search flag   *)
(* guards only [SEARCH:.                                                   *)
(***************************************************************************)
BeginsWithRunCommand(reply) ==
    starts_with(to_uppercase(trim_matches(trim(reply), QuoteChars)), RunCommandPrefix)

C19_RunCommandInEverySession ==
    (replies # <<>> /\ BeginsWithRunCommand(replies[1])) =>
        /\ Count(trace, "web_search") = 0
        /\ ~IsSearch(web_search_enabled, replies[1])
        /\ IF command_str(replies[1]) = <<>>
           THEN trace = <<"call_llm", "No command provided">>
           ELSE /\ Len(trace) >= 2
                /\ trace[2] \in {"sh", "panic"}
                /\ trace[2] = "sh" =>
                       /\ Len(history) >= turnStart.hlen + 3
                       /\ history[turnStart.hlen + 2] = Message("assistant", replies[1])
                       /\ \E output \in ShellOutputs :
                              history[turnStart.hlen + 3] = CommandOutputMessage(output)

\* web search is off, the prompt declares no tools, and a command has been run
C19_Witness ==
    /\ ~web_search_enabled
    /\ session_id # NoSession
    /\ history[1] = Message("system", system_prompt(FALSE, provider))
    /\ replies # <<>>
    /\ replies[1] = ReplyRun
    /\ Count(trace, "sh") = 1

(***************************************************************************)
(* C20.  The stored log of every session holds only messages of role user  *)
(* or assistant, and every stored assistant message comes right after a    *)
(* stored user message: no system prompt, no tool result, no two adjacent  *)
(* assistant messages, never more assistant than user messages.            *)
(***************************************************************************)
RoleCount(log, role) == Cardinality({i \in 1..Len(log) : log[i].role = role})

C20_LogShape ==
    \A sid \in SessionIds :
        LET log == load_history(messages, sid)
        IN  /\ \A i \in 1..Len(log) :
                   /\ log[i].role \in {"user", "assistant"}
                   /\ log[i].role = "assistant" => (i > 1 /\ log[i - 1].role = "user")
            /\ RoleCount(log, "assistant") <= RoleCount(log, "user")

\* a tool turn has ended in a final reply: the history holds the system prompt,
\* the directive and the tool result, the log of the session does not
C20_Witness ==
    /\ TurnEnded("Assistant:")
    /\ ToolExecutions = 1
    /\ \E i \in 1..Len(history) : i > 1 /\ history[i].role = "system"
    /\ Len(Stored) >= 2
    /\ Stored[Len(Stored)].role = "assistant"

====
